---------------------------- MODULE Spec2Model ----------------------------
(***************************************************************************)
(* Model of the subtitle pipeline of yt_enhancer: the batch loop of        *)
(* gemini.Client.CreateSubtitles, the per-batch reconciler                 *)
(* processSubtitles, the global monotonicity pass, and the command-line    *)
(* pipeline that calls them and writes the SRT file.                       *)
(*                                                                         *)
(* The word sequence is represented by its length nWords: the extractor    *)
(* numbers the words 0 .. nWords-1 and the loop only ever reads            *)
(* len(wordTimings).  The reshaping service is the environment: every      *)
(* call answers with a failure or with an arbitrary candidate array.       *)
(***************************************************************************)
EXTENDS Integers, Sequences, FiniteSets, TLC

(***************************************************************************)
(* Program constants.                                                      *)
(***************************************************************************)
batchSize == 300

LastWordDisplayMs == 1500

GapMs == 100

MinDisplayMs == 1000

(***************************************************************************)
(* Bounds of the model.                                                    *)
(***************************************************************************)
\* service calls explored in one run
MaxBatches == 2

\* candidates the service returns in one run, all batches together
MaxTrack == 2

\* paragraphs of a document, and sentences (fragments) of a document in all
MaxParagraphs == 2

MaxSentences == 3

\* characters of a response text
MaxTextLen == 4

(***************************************************************************)
(* Input domains.                                                          *)
(***************************************************************************)
\* len(wordTimings): empty, one partial batch, exactly one full batch,
\* a full batch and a partial one, two full batches
WordCounts == {0, 15, 300, 310, 600}

\* st_id values: negative, a batch's own start (no advance), inside the first
\* batch, past the end of the first batch
StIdVals == {-1, 0, 295, 450}

\* <<st_ms, lw_ms, text>> of a candidate; the texts differ, so that a
\* candidate's text tells where it came from
PayloadVals ==
    {<<0, 3000, "a">>, <<1000, 0, "b">>, <<1050, 1200, "c">>, <<4000, 4000, "d">>,
     <<-500, -1, "e">>}

\* the st_id values every payload is combined with; the other two occur
\* with one payload each
CommonStIds == {0, 295}

\* models.SubtitleInput (the unused field incomplete is left out)
SubtitleInputs ==
    { [StartWordIndex |-> id, StartMs |-> p[1], LastWordStartMs |-> p[2], Text |-> p[3]] :
        id \in CommonStIds, p \in PayloadVals }
    \cup
    { [StartWordIndex |-> id, StartMs |-> 1000, LastWordStartMs |-> 0, Text |-> "b"] :
        id \in StIdVals \ CommonStIds }

\* candidates for the seam between two batches: ids that increase from a
\* batch's first id, each with two payloads
SeamInputs ==
    { [StartWordIndex |-> id, StartMs |-> p[1], LastWordStartMs |-> p[2], Text |-> p[3]] :
        id \in CommonStIds, p \in {<<0, 3000, "a">>, <<4000, 4000, "d">>} }

\* arrays of at most n candidates out of the set from
CandidateArrays(from, n) == UNION { [1..k -> from] : k \in 0..n }

\* the ways one service call fails, in the order processBatch and
\* parseBatchResponse test for them: no response (request, transport or read
\* error), a status other than 200, a response without content, content that
\* is not a candidate array
FailureKinds == {"transport", "status", "nocontent", "badarray"}

Min(a, b) == IF a < b THEN a ELSE b

(***************************************************************************)
(* processSubtitles: end times of one batch's candidates.                  *)
(***************************************************************************)
\* lines 342-348: tentative end from the last word, 0 when unknown
tentativeEnd(sub) ==
    IF sub.LastWordStartMs > 0 THEN sub.LastWordStartMs + LastWordDisplayMs ELSE 0

\* a clamp that always takes the next start less the gap
clampToNext_Always(endMs, next) == next.StartMs - GapMs

\* lines 351-356: clamp against the next candidate of the same batch
clampToNext(endMs, next) ==
    LET nextStart == next.StartMs - GapMs
    IN  IF endMs = 0 \/ nextStart < endMs THEN nextStart ELSE endMs

\* the reconciler without its minimum-duration fallback
minDuration_Skipped(startMs, endMs) == endMs

\* lines 359-361: minimum display duration
minDuration(startMs, endMs) ==
    IF endMs <= startMs \/ endMs - startMs < MinDisplayMs
    THEN startMs + MinDisplayMs
    ELSE endMs

processSubtitles(inputSubtitles) ==
    [ i \in 1..Len(inputSubtitles) |->
        LET sub == inputSubtitles[i]
            e0  == tentativeEnd(sub)
            e1  == IF i < Len(inputSubtitles)
                   THEN clampToNext(e0, inputSubtitles[i + 1])
                   ELSE e0
        IN  [StartMs |-> sub.StartMs,
             EndMs   |-> minDuration(sub.StartMs, e1),
             Text    |-> sub.Text] ]

(***************************************************************************)
(* parseBatchResponse: the index the next batch starts at.                 *)
(***************************************************************************)
\* advancing by the batch size whatever the service declared
lastWordIndexOf_FullBatch(subtitleInputs, startIndex) == startIndex + batchSize

lastWordIndexOf(subtitleInputs, startIndex) ==
    IF Len(subtitleInputs) > 0
    THEN subtitleInputs[Len(subtitleInputs)].StartWordIndex
    ELSE startIndex

(***************************************************************************)
(* CreateSubtitles, lines 104-112: the global pass, left to right.         *)
(***************************************************************************)
\* a global pass that clamps nothing
clampToFollowing_Never(prev, next) == prev

\* a global pass that closes every gap as well
clampToFollowing_Always(prev, next) == [prev EXCEPT !.EndMs = next.StartMs - GapMs]

clampToFollowing(prev, next) ==
    IF prev.EndMs > next.StartMs
    THEN [prev EXCEPT !.EndMs = next.StartMs - GapMs]
    ELSE prev

RECURSIVE postProcessFrom(_, _)
postProcessFrom(subs, i) ==
    IF i > Len(subs)
    THEN subs
    ELSE postProcessFrom([subs EXCEPT ![i - 1] = clampToFollowing(subs[i - 1], subs[i])],
                         i + 1)

postProcess(allSubs) == IF Len(allSubs) > 1 THEN postProcessFrom(allSubs, 2) ELSE allSubs

(***************************************************************************)
(* processBatch: a failed debug-artifact write is reported and ignored.    *)
(***************************************************************************)
\* a debug-artifact write whose failure is returned as an error
debugWriteAborts_OnFailure(ok) == ~ok

debugWriteAborts(ok) == FALSE

(***************************************************************************)
(* processBatch, lines 178-209: the outcomes of a service call that make   *)
(* it return an error.                                                     *)
(***************************************************************************)
batchFails(kind) == kind # "ok"

(***************************************************************************)
(* Command-line processSubtitles: the output is written only when          *)
(* CreateSubtitles returned no error.                                      *)
(***************************************************************************)
\* a pipeline that writes the output whatever CreateSubtitles returned
writesOutput_Always(e) == TRUE

writesOutput(e) == e = "none"

(***************************************************************************)
(* Strings are sequences of characters.  strings.TrimSpace, HasPrefix,     *)
(* TrimPrefix and LastIndex, and strconv.Atoi, as the code uses them.      *)
(***************************************************************************)
IsSpace(c) == c \in {" ", "\t", "\n", "\r"}

RECURSIVE TrimLeft(_)
TrimLeft(s) == IF s # <<>> /\ IsSpace(Head(s)) THEN TrimLeft(Tail(s)) ELSE s

RECURSIVE TrimRight(_)
TrimRight(s) ==
    IF s # <<>> /\ IsSpace(s[Len(s)]) THEN TrimRight(SubSeq(s, 1, Len(s) - 1)) ELSE s

TrimSpace(s) == TrimRight(TrimLeft(s))

HasPrefix(s, prefix) == Len(s) >= Len(prefix) /\ SubSeq(s, 1, Len(prefix)) = prefix

TrimPrefix(s, prefix) ==
    IF HasPrefix(s, prefix) THEN SubSeq(s, Len(prefix) + 1, Len(s)) ELSE s

\* 0-based positions at which substr occurs in s
Occurrences(s, substr) ==
    { i \in 0..(Len(s) - Len(substr)) : SubSeq(s, i + 1, i + Len(substr)) = substr }

\* variant: the first occurrence (strings.Index)
LastIndex_First(s, substr) ==
    LET occ == Occurrences(s, substr)
    IN  IF occ = {} THEN -1 ELSE CHOOSE i \in occ : \A j \in occ : i <= j

\* strings.LastIndex: the last occurrence, -1 when there is none
LastIndex(s, substr) ==
    LET occ == Occurrences(s, substr)
    IN  IF occ = {} THEN -1 ELSE CHOOSE i \in occ : \A j \in occ : i >= j

Digits == <<"0", "1", "2", "3", "4", "5", "6", "7", "8", "9">>

IsDigit(c) == \E d \in 1..10 : Digits[d] = c

DigitValue(c) == (CHOOSE d \in 1..10 : Digits[d] = c) - 1

RECURSIVE Decimal(_)
Decimal(s) ==
    IF s = <<>> THEN 0
    ELSE 10 * Decimal(SubSeq(s, 1, Len(s) - 1)) + DigitValue(s[Len(s)])

\* strconv.Atoi with the error dropped: an optional sign and decimal digits,
\* 0 for anything else
Atoi(s) ==
    LET body == IF s # <<>> /\ s[1] \in {"+", "-"} THEN Tail(s) ELSE s
    IN  IF body = <<>> \/ \E i \in 1..Len(body) : ~IsDigit(body[i])
        THEN 0
        ELSE IF s[1] = "-" THEN 0 - Decimal(body) ELSE Decimal(body)

(***************************************************************************)
(* parser.ExtractWordTimings (part_000 lines 366-398).  The document is    *)
(* the sequence timedText.Body.Paragraphs.                                 *)
(***************************************************************************)
ParagraphTimes == { <<"1", "0", "0">>, <<"1", "x">> }

Sentences ==
    { [Time |-> <<"1", "2">>, Text |-> <<" ", "a", " ">>],
      [Time |-> <<"x">>,      Text |-> <<"b">>],
      [Time |-> <<"5">>,      Text |-> <<" ", " ">>] }

\* paragraphs of exactly k sentences
Paragraphs(k) ==
    { [Time |-> t, Sentences |-> ss] : t \in ParagraphTimes, ss \in [1..k -> Sentences] }

\* documents of at most p paragraphs with at most n sentences in all
RECURSIVE TimedTextsOf(_, _)
TimedTextsOf(p, n) ==
    IF p = 0 THEN { <<>> }
    ELSE { <<>> } \cup
         UNION { { <<paragraph>> \o rest :
                       paragraph \in Paragraphs(k), rest \in TimedTextsOf(p - 1, n - k) } :
                 k \in 0..n }

TimedTexts == TimedTextsOf(MaxParagraphs, MaxSentences)

\* variant: the id advances on every fragment
nextWordID_Always(wordID, kept) == wordID + 1

\* wordID++ is reached only after the append (lines 383-393)
nextWordID(wordID, kept) == IF kept THEN wordID + 1 ELSE wordID

\* the inner loop (lines 378-394) from sentence j on; acc carries wordTimings
\* and wordID
RECURSIVE extractSentences(_, _, _, _)
extractSentences(paragraphTime, sentences, j, acc) ==
    IF j > Len(sentences) THEN acc
    ELSE LET sentence     == sentences[j]
             sentenceTime == Atoi(sentence.Time)
             startTime    == paragraphTime + sentenceTime
             kept         == TrimSpace(sentence.Text) # <<>>
         IN  extractSentences(paragraphTime, sentences, j + 1,
                 [wordTimings |->
                      IF kept
                      THEN Append(acc.wordTimings,
                                  [ID        |-> acc.wordID,
                                   Word      |-> TrimSpace(sentence.Text),
                                   StartTime |-> startTime])
                      ELSE acc.wordTimings,
                  wordID |-> nextWordID(acc.wordID, kept)])

\* the outer loop (lines 370-395) from paragraph i on
RECURSIVE extractParagraphs(_, _, _)
extractParagraphs(paragraphs, i, acc) ==
    IF i > Len(paragraphs) THEN acc
    ELSE LET paragraph == paragraphs[i]
         IN  IF Len(paragraph.Sentences) = 0
             THEN extractParagraphs(paragraphs, i + 1, acc)
             ELSE extractParagraphs(paragraphs, i + 1,
                      extractSentences(Atoi(paragraph.Time), paragraph.Sentences, 1, acc))

ExtractWordTimings(paragraphs) ==
    extractParagraphs(paragraphs, 1, [wordTimings |-> <<>>, wordID |-> 0]).wordTimings

(***************************************************************************)
(* cleanJsonContent (part_002 lines 321-335).                              *)
(***************************************************************************)
\* the backtick character, written by its name
Backtick == "backtick"

Fence == <<Backtick, Backtick, Backtick>>

JsonTag == <<"j", "s", "o", "n">>

JsonFence == Fence \o JsonTag

Chars == {Backtick, " ", "j", "s", "o", "n", "["}

Texts == UNION { [1..k -> Chars] : k \in 0..MaxTextLen }

\* TrimPrefix, then the cut at the last fence if there is one
stripFence(jsonContent, prefix) ==
    LET rest == TrimPrefix(jsonContent, prefix)
        idx  == LastIndex(rest, Fence)
    IN  IF idx # -1 THEN SubSeq(rest, 1, idx) ELSE rest

cleanJsonContent(jsonContent) ==
    LET trimmed == TrimSpace(jsonContent)
    IN  TrimSpace(IF HasPrefix(trimmed, JsonFence) THEN stripFence(trimmed, JsonFence)
                  ELSE IF HasPrefix(trimmed, Fence) THEN stripFence(trimmed, Fence)
                  ELSE trimmed)

(***************************************************************************)
(* State.                                                                  *)
(***************************************************************************)
VARIABLES
    pc,            \* position of the command-line pipeline
    nWords,        \* len(wordTimings)
    debugMode,     \* Client.debugMode
    debugDir,      \* Client.debugDir
    startIndex,    \* CreateSubtitles: rolling start index
    batchNum,      \* CreateSubtitles: number of the next batch
    allSubtitles,  \* CreateSubtitles: accumulated track
    err,           \* the error the run ended with, "none" otherwise
    result,        \* the track CreateSubtitles returned (<<>> for nil)
    srtWritten,    \* whether WriteSRT wrote the output file
    log,           \* history: one record per service call
    dbgFailed,     \* history: whether a debug-artifact write failed
    answers,       \* environment: the candidates the service answers with
    budget,        \* environment: candidates the service may still return
    timedText,     \* the paragraphs of the document given to ExtractWordTimings
    wordTimings,   \* what ExtractWordTimings returned last
    previous,      \* what it returned the time before
    extractions,   \* how often it has run on timedText
    text,          \* a response text
    openFence,     \* the opening fence put before it
    cleanedFenced, \* cleanJsonContent of the fenced text
    cleanedPlain,  \* cleanJsonContent of the text itself
    cleaned        \* whether cleanJsonContent has run

pipelineVars == <<pc, nWords, debugMode, debugDir, startIndex, batchNum, allSubtitles,
                  err, result, srtWritten, log, dbgFailed, answers, budget>>

extractVars == <<timedText, wordTimings, previous, extractions>>

cleanVars == <<text, openFence, cleanedFenced, cleanedPlain, cleaned>>

vars == <<pipelineVars, extractVars, cleanVars>>

\* no pipeline run
PipelineIdle ==
    /\ pc = "idle"
    /\ nWords = 0
    /\ debugMode = FALSE
    /\ debugDir = ""
    /\ startIndex = 0
    /\ batchNum = 1
    /\ allSubtitles = <<>>
    /\ err = "none"
    /\ result = <<>>
    /\ srtWritten = FALSE
    /\ log = <<>>
    /\ dbgFailed = FALSE
    /\ answers = {}
    /\ budget = 0

\* no document under extraction
ExtractIdle ==
    /\ timedText = <<>>
    /\ wordTimings = <<>>
    /\ previous = <<>>
    /\ extractions = 0

\* no response text under cleaning
CleanIdle ==
    /\ text = <<>>
    /\ openFence = Fence
    /\ cleanedFenced = <<>>
    /\ cleanedPlain = <<>>
    /\ cleaned = FALSE

debugOn == debugMode /\ debugDir # ""

Init ==
    /\ pc = "cli"
    /\ nWords \in WordCounts
    /\ debugMode \in BOOLEAN
    /\ debugDir \in {"", "debug"}
    /\ startIndex = 0
    /\ batchNum = 1
    /\ allSubtitles = <<>>
    /\ err = "none"
    /\ result = <<>>
    /\ srtWritten = FALSE
    /\ log = <<>>
    /\ dbgFailed = FALSE
    /\ answers = SubtitleInputs
    /\ budget = MaxTrack
    /\ ExtractIdle
    /\ CleanIdle

\* the for condition of line 68
loopHead(si) == IF si < nWords THEN "loop" ELSE "post"

(***************************************************************************)
(* Command-line processSubtitles, up to the call of CreateSubtitles.       *)
(***************************************************************************)
CliExtract ==
    /\ UNCHANGED <<extractVars, cleanVars>>
    /\ pc = "cli"
    /\ IF nWords = 0
       THEN /\ pc' = "cli_failed"
            /\ err' = "nowords"
       ELSE /\ pc' = "create"
            /\ err' = err
    /\ UNCHANGED <<nWords, debugMode, debugDir, startIndex, batchNum, allSubtitles,
                   result, srtWritten, log, dbgFailed, answers, budget>>

(***************************************************************************)
(* CreateSubtitles, lines 55-66: debug directory and loop variables.       *)
(***************************************************************************)
CreateStart ==
    /\ UNCHANGED <<extractVars, cleanVars>>
    /\ pc = "create"
    /\ \E mkdirOk \in BOOLEAN :
        IF debugOn /\ ~mkdirOk
        THEN /\ pc' = "returned"
             /\ err' = "debugdir"
             /\ dbgFailed' = dbgFailed
        ELSE /\ pc' = loopHead(0)
             /\ err' = err
             /\ dbgFailed' = dbgFailed
    /\ startIndex' = 0
    /\ batchNum' = 1
    /\ allSubtitles' = <<>>
    /\ result' = <<>>
    /\ UNCHANGED <<nWords, debugMode, debugDir, srtWritten, log, answers, budget>>

(***************************************************************************)
(* One iteration of the batch loop, lines 68-102, with processBatch and    *)
(* parseBatchResponse.                                                     *)
(***************************************************************************)
\* The service's answer is kind (a failure, or "ok" with the candidate array
\* cands); promptOk, respOk and subsOk are the outcomes of the three debug
\* writes, which are attempted only in debug mode with a debug directory, the
\* response dump only once a response was read, the subtitles dump only after
\* a successful parse.  The run is followed for MaxBatches service calls and
\* budget candidates.
ProcessBatch ==
    /\ UNCHANGED <<extractVars, cleanVars>>
    /\ pc = "loop"
    /\ batchNum <= MaxBatches
    /\ IF startIndex < 0
       THEN \* wordTimings[startIndex:endIndex] with a negative bound
            /\ pc' = "panicked"
            /\ UNCHANGED <<startIndex, batchNum, allSubtitles, err, result, log,
                           dbgFailed, budget>>
       ELSE LET endIndex == Min(startIndex + batchSize, nWords)
            IN  \E kind \in FailureKinds \cup {"ok"},
                   cands \in CandidateArrays(answers, budget),
                   promptOk \in BOOLEAN, respOk \in BOOLEAN, subsOk \in BOOLEAN :
                    /\ kind # "ok" => cands = <<>>
                    /\ debugOn \/ (promptOk /\ respOk /\ subsOk)
                    /\ kind = "transport" => respOk
                    /\ kind # "ok" => subsOk
                    /\ LET aborts == \/ debugWriteAborts(promptOk)
                                     \/ debugWriteAborts(respOk)
                                     \/ debugWriteAborts(subsOk)
                           subtitles == processSubtitles(cands)
                           lastWordIndex == lastWordIndexOf(cands, startIndex)
                       IN  /\ dbgFailed' = (dbgFailed \/ ~promptOk \/ ~respOk \/ ~subsOk)
                           /\ budget' = budget - Len(cands)
                           /\ IF aborts
                              THEN /\ pc' = "returned"
                                   /\ err' = "debugwrite"
                                   /\ result' = <<>>
                                   /\ UNCHANGED <<startIndex, batchNum, allSubtitles, log>>
                              ELSE IF batchFails(kind)
                              THEN /\ pc' = "returned"
                                   /\ err' = kind
                                   /\ result' = <<>>
                                   /\ log' = Append(log, [lo |-> startIndex, hi |-> endIndex,
                                                          kind |-> kind, cands |-> <<>>,
                                                          subs |-> <<>>, next |-> startIndex])
                                   /\ UNCHANGED <<startIndex, batchNum, allSubtitles>>
                              ELSE /\ allSubtitles' = allSubtitles \o subtitles
                                   /\ startIndex' = lastWordIndex
                                   /\ batchNum' = batchNum + 1
                                   /\ log' = Append(log, [lo |-> startIndex, hi |-> endIndex,
                                                          kind |-> kind, cands |-> cands,
                                                          subs |-> subtitles,
                                                          next |-> lastWordIndex])
                                   /\ pc' = IF endIndex - startIndex < batchSize
                                            THEN "post"
                                            ELSE loopHead(lastWordIndex)
                                   /\ UNCHANGED <<err, result>>
    /\ UNCHANGED <<nWords, debugMode, debugDir, srtWritten, answers>>

(***************************************************************************)
(* CreateSubtitles, lines 104-114: global pass and return.                 *)
(***************************************************************************)
PostProcess ==
    /\ UNCHANGED <<extractVars, cleanVars>>
    /\ pc = "post"
    /\ allSubtitles' = postProcess(allSubtitles)
    /\ result' = allSubtitles'
    /\ pc' = "returned"
    /\ UNCHANGED <<nWords, debugMode, debugDir, startIndex, batchNum, err,
                   srtWritten, log, dbgFailed, answers, budget>>

(***************************************************************************)
(* Command-line processSubtitles after CreateSubtitles returned.           *)
(***************************************************************************)
CliWriteOutput ==
    /\ UNCHANGED <<extractVars, cleanVars>>
    /\ pc = "returned"
    /\ IF ~writesOutput(err)
       THEN /\ pc' = "cli_failed"
            /\ UNCHANGED <<err, srtWritten>>
       ELSE \E mkdirOk \in BOOLEAN, writeOk \in BOOLEAN :
             IF mkdirOk /\ writeOk
             THEN /\ pc' = "cli_done"
                  /\ srtWritten' = TRUE
                  /\ err' = err
             ELSE /\ pc' = "cli_failed"
                  /\ srtWritten' = FALSE
                  /\ err' = "output"
    /\ UNCHANGED <<nWords, debugMode, debugDir, startIndex, batchNum, allSubtitles,
                   result, log, dbgFailed, answers, budget>>

Next ==
    \/ CliExtract
    \/ CreateStart
    \/ ProcessBatch
    \/ PostProcess
    \/ CliWriteOutput

Spec == Init /\ [][Next]_vars

(***************************************************************************)
(* The same pipeline with a service that answers from SeamInputs and may   *)
(* return one candidate more: runs of two batches with two candidates in   *)
(* the first.                                                              *)
(***************************************************************************)
SeamInit ==
    /\ pc = "cli"
    /\ nWords \in {310, 600}
    /\ debugMode \in BOOLEAN
    /\ debugDir = "debug"
    /\ startIndex = 0
    /\ batchNum = 1
    /\ allSubtitles = <<>>
    /\ err = "none"
    /\ result = <<>>
    /\ srtWritten = FALSE
    /\ log = <<>>
    /\ dbgFailed = FALSE
    /\ answers = SeamInputs
    /\ budget = MaxTrack + 1
    /\ ExtractIdle
    /\ CleanIdle

SeamSpec == SeamInit /\ [][Next]_vars

(***************************************************************************)
(* ExtractWordTimings on its own: a document out of TimedTexts, extracted  *)
(* and extracted again.                                                    *)
(***************************************************************************)
ExtractInit ==
    /\ PipelineIdle
    /\ CleanIdle
    /\ timedText \in TimedTexts
    /\ wordTimings = <<>>
    /\ previous = <<>>
    /\ extractions = 0

Extract ==
    /\ extractions < 2
    /\ previous' = wordTimings
    /\ wordTimings' = ExtractWordTimings(timedText)
    /\ extractions' = extractions + 1
    /\ UNCHANGED <<timedText, pipelineVars, cleanVars>>

ExtractSpec == ExtractInit /\ [][Extract]_vars

(***************************************************************************)
(* cleanJsonContent on its own: a text out of Texts, cleaned once between  *)
(* an opening fence and the closing fence and once as it is.               *)
(***************************************************************************)
CleanInit ==
    /\ PipelineIdle
    /\ ExtractIdle
    /\ text \in Texts
    /\ openFence \in {JsonFence, Fence}
    /\ cleanedFenced = <<>>
    /\ cleanedPlain = <<>>
    /\ cleaned = FALSE

Clean ==
    /\ ~cleaned
    /\ cleanedFenced' = cleanJsonContent(openFence \o text \o Fence)
    /\ cleanedPlain' = cleanJsonContent(text)
    /\ cleaned' = TRUE
    /\ UNCHANGED <<text, openFence, pipelineVars, extractVars>>

CleanSpec == CleanInit /\ [][Clean]_vars

(***************************************************************************)
(* Notions the properties are stated in.                                   *)
(***************************************************************************)
\* CreateSubtitles returned a track (the output may still fail to be written)
Completed ==
    /\ pc \in {"returned", "cli_done", "cli_failed"}
    /\ err \in {"none", "output"}

\* the subtitles the reconciler returned, batch after batch, before the global pass
RECURSIVE rawTrackFrom(_)
rawTrackFrom(k) == IF k > Len(log) THEN <<>> ELSE log[k].subs \o rawTrackFrom(k + 1)

RawTrack == rawTrackFrom(1)

\* every candidate the service returned in this run
AllCandidates == UNION { {log[k].cands[i] : i \in 1..Len(log[k].cands)} : k \in 1..Len(log) }

(***************************************************************************)
(* C1: in the track CreateSubtitles returns, every subtitle ends no later  *)
(* than the next one starts, whatever the service answered.                *)
(***************************************************************************)
C1_NoOverlap ==
    Completed =>
        \A i \in 1..(Len(result) - 1) : result[i].EndMs <= result[i + 1].StartMs

\* a returned track of two batches whose subtitles overlapped at the seam
\* before the global pass
C1_Witness ==
    /\ Completed
    /\ Len(log) >= 2
    /\ Len(log[1].subs) = 1
    /\ Len(result) = 2
    /\ RawTrack[1].EndMs > RawTrack[2].StartMs
    /\ result[1].EndMs <= result[2].StartMs

(***************************************************************************)
(* C2: every subtitle of the returned track ends after it starts, when no  *)
(* candidate has a negative st_ms.                                         *)
(***************************************************************************)
C2_EndAfterStart ==
    (Completed /\ \A c \in AllCandidates : c.StartMs >= 0) =>
        \A i \in 1..Len(result) : result[i].EndMs > result[i].StartMs

(***************************************************************************)
(* C3: every subtitle of the returned track lasts at least 1000 ms.        *)
(***************************************************************************)
C3_FinalMinDuration ==
    Completed =>
        \A i \in 1..Len(result) : result[i].EndMs - result[i].StartMs >= MinDisplayMs

(***************************************************************************)
(* C4: what the per-batch reconciler returns has one subtitle per          *)
(* candidate, in order, with the candidate's start and text, and each      *)
(* lasts at least 1000 ms.                                                 *)
(***************************************************************************)
C4_ReconcilerMinDuration ==
    \A k \in 1..Len(log) :
        log[k].kind = "ok" =>
            LET in  == log[k].cands
                out == log[k].subs
            IN  /\ Len(out) = Len(in)
                /\ \A i \in 1..Len(in) :
                     /\ out[i].StartMs = in[i].StartMs
                     /\ out[i].Text = in[i].Text
                     /\ out[i].EndMs - out[i].StartMs >= MinDisplayMs

\* a batch of two candidates 50 ms apart: the clamp to the next start falls
\* before the first start, and the fallback sets the end
C4_Witness ==
    \E k \in 1..Len(log) :
        /\ Len(log[k].cands) = 2
        /\ log[k].cands[1].StartMs = 1000
        /\ log[k].cands[2].StartMs = 1050
        /\ log[k].subs[1].EndMs = 2000
        /\ log[k].subs[1].Text # log[k].subs[2].Text

(***************************************************************************)
(* C5: in a completed run, with batch k consuming the ids from its start   *)
(* up to the next batch's start, and the last batch up to its end index,   *)
(* the consumed ids in batch order are 0, 1, .. nWords-1, each once.       *)
(***************************************************************************)
IdRange(a, b) == [i \in 1..(b - a) |-> a + i - 1]

RECURSIVE consumedFrom(_)
consumedFrom(k) ==
    IF k > Len(log) THEN <<>>
    ELSE IF k = Len(log) THEN IdRange(log[k].lo, log[k].hi)
    ELSE IdRange(log[k].lo, log[k + 1].lo) \o consumedFrom(k + 1)

C5_Coverage == Completed => consumedFrom(1) = IdRange(0, nWords)

(***************************************************************************)
(* C6: after a batch whose response holds a candidate, the next batch      *)
(* sent starts at the st_id of the response's last candidate; with 310     *)
(* words and a first response ending at st_id 295 the second batch is      *)
(* 295..309, 15 entries, and the last one.                                 *)
(***************************************************************************)
C6_NextStartsAtLastStId ==
    /\ \A k \in 1..(Len(log) - 1) :
         Len(log[k].cands) > 0 =>
             log[k + 1].lo = log[k].cands[Len(log[k].cands)].StartWordIndex
    /\ (/\ nWords = 310
        /\ Len(log) >= 1
        /\ Len(log[1].cands) > 0
        /\ log[1].cands[Len(log[1].cands)].StartWordIndex = 295)
       => IF Len(log) = 1
          THEN pc = "loop" /\ startIndex = 295
          ELSE /\ Len(log) = 2
               /\ log[2].lo = 295
               /\ log[2].hi = 310
               /\ log[2].hi - log[2].lo = 15
               /\ pc # "loop"

\* the scenario: 310 words, the second batch sent and answered
C6_Witness ==
    /\ nWords = 310
    /\ Len(log) = 2
    /\ log[1].lo = 0
    /\ log[1].hi = 300
    /\ log[1].next = 295
    /\ log[2].lo = 295
    /\ log[2].kind = "ok"
    /\ pc = "cli_done"

(***************************************************************************)
(* C7: an empty candidate array moves the start index to the end of the    *)
(* batch (its start plus 300).                                             *)
(***************************************************************************)
C7_EmptyAdvances ==
    \A k \in 1..Len(log) :
        (log[k].kind = "ok" /\ log[k].cands = <<>>) =>
            log[k].next \in {log[k].lo + batchSize, log[k].hi}

(***************************************************************************)
(* C8: the batch loop issues finitely many service calls whatever the      *)
(* service answers.  The service may give the same answer again, so this   *)
(* needs every iteration that comes back to the loop head with a start     *)
(* index it can slice from to have moved the start index forward.          *)
(***************************************************************************)
C8_LoopAdvances ==
    [][(pc = "loop" /\ pc' = "loop" /\ startIndex' >= 0) => startIndex' > startIndex]_vars

(***************************************************************************)
(* C9: a failed service call ends the run: it is the last call, calls      *)
(* before it succeeded, CreateSubtitles returns its error and no track,    *)
(* and the SRT file is not written.                                        *)
(***************************************************************************)
C9_FailFast ==
    /\ \A k \in 1..Len(log) :
         log[k].kind # "ok" =>
             /\ k = Len(log)
             /\ err = log[k].kind
    /\ err \in FailureKinds =>
         /\ pc \in {"returned", "cli_failed"}
         /\ Len(log) >= 1
         /\ log[Len(log)].kind = err
         /\ result = <<>>
         /\ ~srtWritten

\* the second call failed after the first had produced subtitles, and the
\* pipeline has ended
C9_Witness ==
    /\ err \in FailureKinds
    /\ pc = "cli_failed"
    /\ Len(log) = 2
    /\ Len(allSubtitles) >= 1
    /\ result = <<>>

(***************************************************************************)
(* C10: with debug mode on, no failed debug-artifact operation (creating   *)
(* the debug directory, writing a prompt, response or subtitles dump)      *)
(* makes CreateSubtitles return an error.                                  *)
(***************************************************************************)
C10_DebugNeverAborts == debugMode => err \notin {"debugdir", "debugwrite"}

(***************************************************************************)
(* C10 as amended: a failed write of a prompt, response or subtitles dump  *)
(* never ends the run, and the track returned is the one the service's     *)
(* answers alone determine; a failure to create the debug directory ends   *)
(* the run with an error before the first batch.                           *)
(***************************************************************************)
RECURSIVE reconciledFrom(_)
reconciledFrom(k) ==
    IF k > Len(log) THEN <<>> ELSE processSubtitles(log[k].cands) \o reconciledFrom(k + 1)

\* the batches follow from the answers: each starts where the previous
\* answer said, and the run ended only where the loop ends
BatchesFollowAnswers ==
    /\ Len(log) >= 1 => log[1].lo = 0
    /\ \A k \in 1..Len(log) :
         /\ log[k].hi = Min(log[k].lo + batchSize, nWords)
         /\ k < Len(log) => log[k + 1].lo = lastWordIndexOf(log[k].cands, log[k].lo)
    /\ (Completed /\ nWords > 0) =>
         /\ Len(log) >= 1
         /\ LET last == log[Len(log)]
            IN  \/ last.hi - last.lo < batchSize
                \/ lastWordIndexOf(last.cands, last.lo) >= nWords

C10_DebugWritesBestEffort ==
    /\ err # "debugwrite"
    /\ err = "debugdir" =>
         /\ debugOn
         /\ log = <<>>
         /\ result = <<>>
         /\ ~srtWritten
    /\ BatchesFollowAnswers
    /\ Completed => result = postProcess(reconciledFrom(1))

\* a run in debug mode in which a debug write failed, completed, output written
C10_Witness ==
    /\ debugOn
    /\ dbgFailed
    /\ pc = "cli_done"
    /\ Len(log) >= 2
    /\ Len(result) >= 1

(***************************************************************************)
(* C11: ExtractWordTimings returns, in document order, one entry for each  *)
(* fragment whose trimmed text is not empty; the k-th entry, counted from  *)
(* 0, has id k; its start is the paragraph's offset plus the fragment's,   *)
(* an offset that is not a number counting as 0; and extracting the same   *)
(* document again gives the same sequence.                                 *)
(***************************************************************************)
\* the fragments of the document in document order, each with the offset of
\* its paragraph
RECURSIVE C11_Flatten(_)
C11_Flatten(paragraphs) ==
    IF paragraphs = <<>> THEN <<>>
    ELSE LET p == Head(paragraphs)
         IN  [j \in 1..Len(p.Sentences) |->
                 [PTime |-> p.Time, STime |-> p.Sentences[j].Time,
                  Text |-> p.Sentences[j].Text]]
             \o C11_Flatten(Tail(paragraphs))

C11_NonBlank(f) == \E i \in 1..Len(f.Text) : f.Text[i] # " "

C11_Retained == SelectSeq(C11_Flatten(timedText), C11_NonBlank)

\* the offsets of the documents, read by hand
C11_Offset(s) ==
    CASE s = <<"1", "0", "0">> -> 100
      [] s = <<"1", "2">>      -> 12
      [] s = <<"5">>           -> 5
      [] OTHER                 -> 0

C11_ExtractInOrder ==
    /\ extractions > 0 =>
           /\ Len(wordTimings) = Len(C11_Retained)
           /\ \A k \in 1..Len(wordTimings) :
                 /\ wordTimings[k].ID = k - 1
                 /\ wordTimings[k].StartTime =
                        C11_Offset(C11_Retained[k].PTime) + C11_Offset(C11_Retained[k].STime)
                 /\ wordTimings[k].Word = TrimSpace(C11_Retained[k].Text)
    /\ extractions > 1 => previous = wordTimings

\* an empty paragraph, then a blank fragment before the retained one, whose
\* paragraph offset is 100 and fragment offset 12; extracted twice
C11_Witness ==
    /\ extractions = 2
    /\ Len(timedText) = 2
    /\ Len(timedText[1].Sentences) = 0
    /\ Len(timedText[2].Sentences) = 2
    /\ TrimSpace(timedText[2].Sentences[1].Text) = <<>>
    /\ wordTimings = << [ID |-> 0, Word |-> <<"a">>, StartTime |-> 112] >>

(***************************************************************************)
(* C12, as stated: for every text, cleanJsonContent of the text between an *)
(* opening fence (with or without the json tag) and a closing fence equals *)
(* cleanJsonContent of the text alone.                                     *)
(***************************************************************************)
C12_FencesTransparent == cleaned => cleanedFenced = cleanedPlain

(***************************************************************************)
(* C12, amended: the same for every text that does not itself begin, after *)
(* trimming, with a fence and, under the bare opening fence, does not      *)
(* begin with json; both results are then the trimmed text.                *)
(***************************************************************************)
C12_PlainText ==
    /\ ~HasPrefix(TrimSpace(text), Fence)
    /\ ~(openFence = Fence /\ HasPrefix(text, JsonTag))

C12_FencesTransparentForPlainText ==
    (cleaned /\ C12_PlainText) =>
        /\ cleanedFenced = cleanedPlain
        /\ cleanedPlain = TrimSpace(text)

\* a text with blanks around it, under the bare fence
C12_Witness ==
    /\ cleaned
    /\ openFence = Fence
    /\ text = <<" ", "[", "n", " ">>
    /\ cleanedFenced = <<"[", "n">>
    /\ cleanedPlain = <<"[", "n">>

(***************************************************************************)
(* C13: the end of candidate i of a batch is lw_ms + 1500 when lw_ms > 0   *)
(* and unset (0) otherwise; with a candidate i+1 in the batch it becomes   *)
(* next.st_ms - 100 when it is unset or later than that; and when it is    *)
(* not after st_ms, or less than 1000 after it, it becomes st_ms + 1000.   *)
(* For two candidates starting at 1000 and 1050 the reconciler gives the   *)
(* first the end 2000 and the global pass then sets it to 950.             *)
(***************************************************************************)
C13_EndOf(cands, i) ==
    LET st == cands[i].StartMs
        lw == cands[i].LastWordStartMs
        e0 == IF lw > 0 THEN lw + 1500 ELSE 0
        e1 == IF i + 1 <= Len(cands)
              THEN LET n == cands[i + 1].StartMs - 100
                   IN  IF e0 = 0 THEN n ELSE IF n < e0 THEN n ELSE e0
              ELSE e0
    IN  IF e1 <= st THEN st + 1000
        ELSE IF e1 - st < 1000 THEN st + 1000
        ELSE e1

C13_ReconcilerRule ==
    /\ \A k \in 1..Len(log) :
         \A i \in 1..Len(log[k].cands) :
             log[k].subs[i].EndMs = C13_EndOf(log[k].cands, i)
    /\ (/\ Completed
        /\ Len(log) = 1
        /\ Len(log[1].cands) = 2
        /\ log[1].cands[1].StartMs = 1000
        /\ log[1].cands[2].StartMs = 1050)
       => /\ log[1].subs[1].EndMs = 2000
          /\ result[1].EndMs = 950

\* the scenario has run to the end
C13_Witness ==
    /\ Completed
    /\ Len(log) = 1
    /\ Len(log[1].cands) = 2
    /\ log[1].cands[1].StartMs = 1000
    /\ log[1].cands[2].StartMs = 1050
    /\ result[1].EndMs = 950

(***************************************************************************)
(* C14: every batch sent is the slice from its start index i to            *)
(* min(i + 300, nWords), with 0 <= i < nWords and 1 to 300 entries; no     *)
(* start index the service declares takes the slice out of range; and      *)
(* only the last batch sent has fewer than 300 entries.                    *)
(***************************************************************************)
C14_SlicesInRange ==
    /\ pc # "panicked"
    /\ \A k \in 1..Len(log) :
         /\ 0 <= log[k].lo
         /\ log[k].lo < nWords
         /\ log[k].hi = Min(log[k].lo + 300, nWords)
         /\ log[k].hi - log[k].lo \in 1..300
         /\ k < Len(log) => log[k].hi - log[k].lo = 300

(***************************************************************************)
(* C15: when every answer's st_id values increase strictly and begin at    *)
(* the batch's first id, no two subtitles of the returned track come       *)
(* from candidates with the same st_id.                                    *)
(***************************************************************************)
WellFormedAnswers ==
    \A k \in 1..Len(log) :
        LET c == log[k].cands
        IN  /\ Len(c) > 0 => c[1].StartWordIndex = log[k].lo
            /\ \A i \in 1..(Len(c) - 1) : c[i].StartWordIndex < c[i + 1].StartWordIndex

RECURSIVE stIdsFrom(_)
stIdsFrom(k) ==
    IF k > Len(log) THEN <<>>
    ELSE [i \in 1..Len(log[k].cands) |-> log[k].cands[i].StartWordIndex] \o stIdsFrom(k + 1)

C15_NoDuplicateAtSeam ==
    (Completed /\ WellFormedAnswers) =>
        LET ids == stIdsFrom(1)
        IN  /\ Len(ids) = Len(result)
            /\ \A i \in 1..Len(ids) : \A j \in 1..Len(ids) : i # j => ids[i] # ids[j]

(***************************************************************************)
(* C16: the global pass changes end times only.  The returned track has    *)
(* the length, order, starts and texts of the reconciled subtitles; the    *)
(* last end is unchanged; an end changes only when it is later than the    *)
(* next start, and then becomes that start less 100, which is earlier      *)
(* than it was; and the run does not change the word sequence.             *)
(***************************************************************************)
C16_PassFrame ==
    Completed =>
        /\ Len(result) = Len(RawTrack)
        /\ \A i \in 1..Len(result) :
             /\ result[i].StartMs = RawTrack[i].StartMs
             /\ result[i].Text = RawTrack[i].Text
             /\ result[i].EndMs <= RawTrack[i].EndMs
             /\ i = Len(result) => result[i].EndMs = RawTrack[i].EndMs
             /\ i < Len(result) =>
                  IF RawTrack[i].EndMs > RawTrack[i + 1].StartMs
                  THEN result[i].EndMs = RawTrack[i + 1].StartMs - 100
                  ELSE result[i].EndMs = RawTrack[i].EndMs

C16_WordsKept == [][nWords' = nWords]_vars

C16_GlobalPassFrame == []C16_PassFrame /\ C16_WordsKept

\* a returned track of two subtitles with different texts, the first clamped
\* by the pass
C16_Witness ==
    /\ Completed
    /\ Len(result) = 2
    /\ result[1].Text # result[2].Text
    /\ RawTrack[1].EndMs > RawTrack[2].StartMs
    /\ result[1].EndMs = RawTrack[2].StartMs - 100

=============================================================================
